---- MODULE Spec2Model ----
(***************************************************************************)
(* Model of the OpenSim automation helpers:                                *)
(*   metabolics.py : add_metabolic_probes, analyze_metabolics,             *)
(*                   calculate_metabolic_cost                              *)
(*   util.py       : create_project_structure, load_storage_to_dict,       *)
(*                   save_results_summary, verify_file_exists              *)
(* Every function is stateless; the state of the model is the inputs of a  *)
(* call (files, directories, arguments) and what the call leaves behind    *)
(* (files, directories, the returned value or the raised error).           *)
(***************************************************************************)
EXTENDS Integers, Sequences, FiniteSets, TLC

VARIABLES
    \* ---- add_metabolic_probes
    muscles,        \* model.getMuscles(): muscle names in enumeration order
    inputProbes,    \* the probes of the model file at model_path
    probe_type,     \* the probe_type argument
    modelProbes,    \* the probe set of the in-memory model
    outModel,       \* the file at output_model_path
    addResult       \* "idle", "pending", "returned" or "ValueError"

varsProbes == <<muscles, inputProbes, probe_type, modelProbes, outModel, addResult>>

VARIABLES
    \* ---- osim.Storage(file), read by calculate_metabolic_cost and
    \*      load_storage_to_dict
    stoLabels,      \* getColumnLabels(): one label per column, the time column's first
    stoRows,        \* the state vectors: [time |-> t, data |-> <<v1, ..., vk>>]
    costResult,     \* what calculate_metabolic_cost did
    loadResult      \* what load_storage_to_dict did

varsStorage == <<stoLabels, stoRows, costResult, loadResult>>

VARIABLES
    \* ---- analyze_metabolics
    modelReadable,  \* whether osim.Model(model_with_probes_path) loads
    statesTime,     \* the time column of the states file
    outDir,         \* output_dir: "absent", "dir", "readonly" or "file"
    tool,           \* the AnalyzeTool: its time window and whether it is set
    runWindow,      \* the window the tool held when run() was entered
    runOutcome,     \* "none", "completed", "raised" or "false"
    probesSto,      \* whether output_dir/ProbeReporter_probes.sto was written
    anPc            \* "start", "configured", "returned" or "raised"

varsAnalyze ==
    <<modelReadable, statesTime, outDir, tool, runWindow, runOutcome, probesSto, anPc>>

VARIABLES
    \* ---- create_project_structure, verify_file_exists
    base_dir,       \* the base_dir argument
    fs,             \* the filesystem under base_dir: path -> "absent", "dir", "file"
    fsStart,        \* the filesystem before the first call
    createLog,      \* one entry per create_project_structure call, in order
    filepath,       \* verify_file_exists: the filepath argument
    description,    \* verify_file_exists: the description argument
    verifyResult    \* what verify_file_exists did

varsFs == <<base_dir, fs, fsStart, createLog, filepath, description, verifyResult>>

VARIABLES
    \* ---- save_results_summary
    output_dir,     \* the output_dir argument
    outputDirKind,  \* "absent" or "dir"
    summaryFile,    \* output_dir/results_summary.json: [exists, text]
    saveLog         \* one entry per save_results_summary call, in order

varsSave == <<output_dir, outputDirKind, summaryFile, saveLog>>

vars == <<varsProbes, varsStorage, varsAnalyze, varsFs, varsSave>>

\* The largest muscle set drawn.
MaxMuscles == 3

MuscleNames == {"soleus", "tibant", "gastroc", "vasti"}

ProbeTypes == {"Umberger2010", "Bhargava2004", "Hill1938"}

RECURSIVE SeqsUpTo(_, _)
\* All sequences over S of length at most n.
SeqsUpTo(S, n) ==
    IF n = 0 THEN {<<>>}
    ELSE LET shorter == SeqsUpTo(S, n - 1)
         IN  shorter \cup {Append(s, x) : s \in {t \in shorter : Len(t) = n - 1}, x \in S}

Range(s) == {s[i] : i \in 1..Len(s)}

Distinct(s) == \A i, j \in 1..Len(s) : i # j => s[i] # s[j]

----------------------------------------------------------------------------
(* add_metabolic_probes                                                    *)

\* f"{muscle_name}_metabolics"
IndividualName(m) == <<m, "_metabolics">>

\* "whole_body_metabolics"
WholeBodyName == <<"whole_body", "_metabolics">>

\* A probe object after setName and the addMuscle calls.
Probe(kind, name, contributors) ==
    [kind |-> kind, name |-> name, contributors |-> contributors]

RECURSIVE IndividualLoop(_, _, _, _)
\* The first loop, from index i on (1-based here): the probes after it and
\* whether it raised.
IndividualLoop(ms, ptype, probes, i) ==
    IF i > Len(ms) THEN [raised |-> FALSE, probes |-> probes]
    ELSE IF ptype \notin {"Umberger2010", "Bhargava2004"}
         THEN [raised |-> TRUE, probes |-> probes]
         ELSE IndividualLoop(ms, ptype,
                  Append(probes, Probe(ptype, IndividualName(ms[i]), <<<<ms[i], 1>>>>)),
                  i + 1)

\* The kind of the whole-body probe: the else branch takes every other value.
WholeBodyKind(ptype) ==
    IF ptype = "Umberger2010" THEN "Umberger2010" ELSE "Bhargava2004"

\* Variant: the second loop registers the first muscle each time round.
WholeBodyFirstMuscleOnly(ms) == [i \in 1..Len(ms) |-> <<ms[1], 1>>]

\* The second loop: every muscle, in order, with weight 1.0.
WholeBodyContributors(ms) == [i \in 1..Len(ms) |-> <<ms[i], 1>>]

AddMetabolicProbes ==
    /\ addResult = "pending"
    /\ LET loop == IndividualLoop(muscles, probe_type, modelProbes, 1)
       IN  IF loop.raised
           THEN /\ addResult' = "ValueError"
                /\ modelProbes' = loop.probes
                /\ UNCHANGED outModel
           ELSE LET all == Append(loop.probes,
                               Probe(WholeBodyKind(probe_type), WholeBodyName,
                                     WholeBodyContributors(muscles)))
                IN  /\ modelProbes' = all
                    /\ outModel' = [written |-> TRUE, probes |-> all]
                    /\ addResult' = "returned"
    /\ UNCHANGED <<muscles, inputProbes, probe_type>>

\* Probes the input model may already carry.
ExistingProbeSets ==
    {<<>>, <<Probe("Umberger2010", <<"extra", "_probe">>, <<<<"soleus", 1>>>>)>>}

StartProbes ==
    /\ muscles \in {s \in SeqsUpTo(MuscleNames, MaxMuscles) : Distinct(s)}
    /\ probe_type \in ProbeTypes
    /\ inputProbes \in ExistingProbeSets
    /\ modelProbes = inputProbes
    /\ outModel = [written |-> FALSE, probes |-> <<>>]
    /\ addResult = "pending"

\* No call of add_metabolic_probes is under way.
IdleProbes ==
    /\ muscles = <<>>
    /\ inputProbes = <<>>
    /\ probe_type = "Umberger2010"
    /\ modelProbes = <<>>
    /\ outModel = [written |-> FALSE, probes |-> <<>>]
    /\ addResult = "idle"

----------------------------------------------------------------------------
(* osim.Storage as the two readers use it                                  *)

\* The most data columns (the time column not counted) and rows of a file.
MaxCols == 2
MaxRows == 2

Labels == {"time", "whole_body_metabolics", "soleus_metabolics"}

TimeValues == {0, 3}

DataValues == {4, 6}

\* Variant: 0 rather than -1 for a label that is not there.
FindIndexZeroWhenAbsent(labels, x) ==
    IF \E i \in 1..Len(labels) : labels[i] = x
    THEN (CHOOSE i \in 1..Len(labels) :
              labels[i] = x /\ \A j \in 1..(i - 1) : labels[j] # x) - 1
    ELSE 0

\* Array.findIndex: the 0-based index of the first element equal to x, -1 if none.
FindIndex(labels, x) ==
    IF \E i \in 1..Len(labels) : labels[i] = x
    THEN (CHOOSE i \in 1..Len(labels) :
              labels[i] = x /\ \A j \in 1..(i - 1) : labels[j] # x) - 1
    ELSE -1

RECURSIVE SumSeq(_)
SumSeq(s) == IF s = <<>> THEN 0 ELSE Head(s) + SumSeq(Tail(s))

\* The data column at 0-based state index k (the time column is not a state).
DataColumn(rows, k) == [i \in 1..Len(rows) |-> rows[i].data[k + 1]]

\* storage.getTimeColumn(time_vec)
TimeColumn(rows) == [i \in 1..Len(rows) |-> rows[i].time]

\* A rational number num/den, den > 0; means of integers are kept exact.
Rat(num, den) == <<num, den>>

RatEq(a, b) == a[1] * b[2] = b[1] * a[2]

\* storage.getColumnMean(k): the mean of the data column at state index k,
\* an error where the storage has no such column or no row.
ColumnMean(labels, rows, k) ==
    IF k < 0 \/ k >= Len(labels) - 1 \/ rows = <<>>
    THEN [ok |-> FALSE, mean |-> Rat(0, 1)]
    ELSE [ok |-> TRUE, mean |-> Rat(SumSeq(DataColumn(rows, k)), Len(rows))]

NoDict == [k \in {} |-> Rat(0, 1)]

\* The index handed to getColumnMean: the label index as found.
MeanIndex(wb_index) == wb_index

calculate_metabolic_cost(labels, rows) ==
    LET wb_index == FindIndex(labels, "whole_body_metabolics")
    IN  IF wb_index < 0
        THEN [status |-> "returned", warned |-> TRUE, dict |-> NoDict]
        ELSE IF rows = <<>>
        THEN [status |-> "raised", warned |-> FALSE, dict |-> NoDict]
        ELSE LET time_vec == TimeColumn(rows)
                 total_time == time_vec[Len(time_vec)] - time_vec[1]
                 mean_power == ColumnMean(labels, rows, MeanIndex(wb_index))
             IN  IF ~mean_power.ok
                 THEN [status |-> "raised", warned |-> FALSE, dict |-> NoDict]
                 ELSE [status |-> "returned", warned |-> FALSE,
                       dict |-> [k \in {"mean_power_W", "total_energy_J", "duration_s"} |->
                                   CASE k = "mean_power_W" -> mean_power.mean
                                     [] k = "total_energy_J" ->
                                          Rat(mean_power.mean[1] * total_time, mean_power.mean[2])
                                     [] k = "duration_s" -> Rat(total_time, 1)]]

CalculateMetabolicCost ==
    /\ costResult.status = "pending"
    /\ costResult' = calculate_metabolic_cost(stoLabels, stoRows)
    /\ UNCHANGED <<stoLabels, stoRows, loadResult>>

\* ---- load_storage_to_dict

\* The "Initialize columns" loop: 'time' and every label that is not 'time'.
InitColumns(labels) ==
    [l \in {"time"} \cup {labels[i] : i \in 1..Len(labels)} |-> <<>>]

\* The label a state vector's j-th value (0-based) is stored under.
ValueLabel(labels, j) == labels[j + 2]

RECURSIVE AppendValues(_, _, _, _)
\* The inner loop over one state vector, from 0-based index j on.
AppendValues(data, labels, vec, j) ==
    IF j >= Len(vec) THEN data
    ELSE LET label == ValueLabel(labels, j)
         IN  AppendValues([data EXCEPT ![label] = Append(@, vec[j + 1])],
                          labels, vec, j + 1)

RECURSIVE ExtractRows(_, _, _, _)
\* The "Extract data" loop, from row i on (1-based here).
ExtractRows(data, labels, rows, i) ==
    IF i > Len(rows) THEN data
    ELSE LET withTime == [data EXCEPT !["time"] = Append(@, rows[i].time)]
         IN  ExtractRows(AppendValues(withTime, labels, rows[i].data, 0),
                         labels, rows, i + 1)

load_storage_to_dict(labels, rows) ==
    ExtractRows(InitColumns(labels), labels, rows, 1)

LoadStorageToDict ==
    /\ loadResult.status = "pending"
    /\ loadResult' = [status |-> "returned", data |-> load_storage_to_dict(stoLabels, stoRows)]
    /\ UNCHANGED <<stoLabels, stoRows, costResult>>

NonDecreasing(s) == \A i \in 1..(Len(s) - 1) : s[i] <= s[i + 1]

\* The files drawn are those osim.Storage reads: one label per column, the
\* first column the time column whatever its label, times in order.
StartStorage ==
    /\ \E ls \in SeqsUpTo(Labels, MaxCols + 1) \ {<<>>} :
       \E ts \in {t \in SeqsUpTo(TimeValues, MaxRows) : NonDecreasing(t)} :
       \E ds \in {d \in SeqsUpTo({v \in SeqsUpTo(DataValues, MaxCols) : Len(v) = Len(ls) - 1},
                                  MaxRows) : Len(d) = Len(ts)} :
          /\ stoLabels = ls
          /\ stoRows = [i \in 1..Len(ts) |-> [time |-> ts[i], data |-> ds[i]]]
    /\ costResult = [status |-> "pending", warned |-> FALSE, dict |-> NoDict]
    /\ loadResult = [status |-> "pending", data |-> NoDict]

IdleStorage ==
    /\ stoLabels = <<"time">>
    /\ stoRows = <<>>
    /\ costResult = [status |-> "idle", warned |-> FALSE, dict |-> NoDict]
    /\ loadResult = [status |-> "idle", data |-> NoDict]

----------------------------------------------------------------------------
(* analyze_metabolics                                                      *)

\* The most samples of a states file.
MaxSamples == 3

\* os.makedirs(output_dir, exist_ok=True): the directory afterwards, and
\* whether the call raised (a file is in the way).
MakeOutputDir(kind) ==
    CASE kind = "absent" -> [raised |-> FALSE, kind |-> "dir"]
      [] kind = "file" -> [raised |-> TRUE, kind |-> "file"]
      [] OTHER -> [raised |-> FALSE, kind |-> kind]

\* The sample times a states file is drawn from.
StateTimes == {0, 1, 3}

\* states_storage.getFirstTime() / getLastTime(): the first and the last
\* sample; on a storage without samples the library's own default.
FirstTimes(times) == IF times = <<>> THEN StateTimes ELSE {times[1]}

LastTimes(times) == IF times = <<>> THEN StateTimes ELSE {times[Len(times)]}

\* Variant: the final time taken from getFirstTime() as well.
ConfiguredWindowsFirstTwice(times) ==
    {[set |-> TRUE, initial |-> f, final |-> l] :
        f \in FirstTimes(times), l \in FirstTimes(times)}

\* setInitialTime(getFirstTime()), setFinalTime(getLastTime())
ConfiguredWindows(times) ==
    {[set |-> TRUE, initial |-> f, final |-> l] :
        f \in FirstTimes(times), l \in LastTimes(times)}

NoWindow == [set |-> FALSE, initial |-> 0, final |-> 0]

\* Lines 76-95: everything before analyze_tool.run().
AnalyzeConfigure ==
    /\ anPc = "start"
    /\ LET made == MakeOutputDir(outDir)
       IN  /\ outDir' = made.kind
           /\ IF made.raised \/ ~modelReadable
              THEN /\ anPc' = "raised"
                   /\ UNCHANGED tool
              ELSE /\ anPc' = "configured"
                   /\ tool' \in ConfiguredWindows(statesTime)
    /\ UNCHANGED <<modelReadable, statesTime, runWindow, runOutcome, probesSto>>

\* Whether the external run can complete: it needs samples to analyse and a
\* results directory it can write to.
RunCanComplete == statesTime # <<>> /\ outDir = "dir"

\* What analyze_tool.run() does: it returns a completion flag, and a run
\* that cannot complete either raises or returns False.
RunOutcomes == IF RunCanComplete THEN {"completed"} ELSE {"raised", "false"}

\* What follows run(): its return value is not looked at, so only an
\* exception keeps the function from returning the path.
AfterRun(outcome) == IF outcome = "raised" THEN "raised" ELSE "returned"

\* Lines 96-100: the run, then the return of the results path.
AnalyzeRun ==
    /\ anPc = "configured"
    /\ \E outcome \in RunOutcomes :
          /\ runOutcome' = outcome
          /\ probesSto' = (outcome = "completed")
          /\ anPc' = AfterRun(outcome)
    /\ runWindow' = tool
    /\ UNCHANGED <<modelReadable, statesTime, outDir, tool>>

StartAnalyze ==
    /\ modelReadable \in BOOLEAN
    /\ statesTime \in SeqsUpTo(StateTimes, MaxSamples)
    /\ outDir \in {"absent", "dir", "readonly", "file"}
    /\ tool = NoWindow
    /\ runWindow = NoWindow
    /\ runOutcome = "none"
    /\ probesSto = FALSE
    /\ anPc = "start"

IdleAnalyze ==
    /\ modelReadable = TRUE
    /\ statesTime = <<>>
    /\ outDir = "absent"
    /\ tool = NoWindow
    /\ runWindow = NoWindow
    /\ runOutcome = "none"
    /\ probesSto = FALSE
    /\ anPc = "idle"

----------------------------------------------------------------------------
(* create_project_structure                                                *)

\* The most calls of create_project_structure in a run.
MaxCalls == 2

BaseDirs == {"proj", "study"}

\* The keys of dirs['data']['results'], in the literal's order.
LeafOrder == <<"scaling", "ik", "id", "cmc", "metabolics", "rra">>

LeafNames == Range(LeafOrder)

\* os.path.join(base_dir, 'data', 'results', leaf), as its components.
LeafPath(base, leaf) == <<base, "data", "results", leaf>>

\* The dirs literal.
DirsOf(base) ==
    [data |-> [results |-> [leaf \in LeafNames |-> LeafPath(base, leaf)]]]

Prefix(path, n) == SubSeq(path, 1, n)

\* Every path the layout touches: the leaves and their ancestors up to base_dir.
PathsOf(base) ==
    {Prefix(LeafPath(base, leaf), n) : leaf \in LeafNames, n \in 1..4}

\* Variant: os.makedirs without exist_ok.
ExistOkOmitted == FALSE

\* exist_ok of the os.makedirs call.
ExistOk == TRUE

RECURSIVE MakeDirsFrom(_, _, _)
\* os.makedirs(path, exist_ok=True) from the n-th component on: every missing
\* ancestor is created; a file on the way, or at the path itself, raises.
MakeDirsFrom(f, path, n) ==
    LET p == Prefix(path, n)
    IN  CASE f[p] = "file" -> [raised |-> TRUE, fs |-> f]
          [] f[p] = "dir" /\ n = Len(path) /\ ~ExistOk -> [raised |-> TRUE, fs |-> f]
          [] f[p] = "dir" /\ n = Len(path) -> [raised |-> FALSE, fs |-> f]
          [] f[p] = "dir" -> MakeDirsFrom(f, path, n + 1)
          [] OTHER ->
               LET g == [f EXCEPT ![p] = "dir"]
               IN  IF n = Len(path) THEN [raised |-> FALSE, fs |-> g]
                   ELSE MakeDirsFrom(g, path, n + 1)

RECURSIVE MakeLeaves(_, _, _)
\* make_dirs over the leaves from the i-th on; the first error ends it.
MakeLeaves(f, base, i) ==
    IF i > Len(LeafOrder) THEN [raised |-> FALSE, fs |-> f]
    ELSE LET made == MakeDirsFrom(f, LeafPath(base, LeafOrder[i]), 1)
         IN  IF made.raised THEN made ELSE MakeLeaves(made.fs, base, i + 1)

create_project_structure(f, base) ==
    LET made == MakeLeaves(f, base, 1)
    IN  IF made.raised
        THEN [status |-> "raised", dirs |-> DirsOf(base), fs |-> made.fs]
        ELSE [status |-> "returned", dirs |-> DirsOf(base), fs |-> made.fs]

CreateProjectStructure ==
    /\ Len(createLog) < MaxCalls
    /\ LET r == create_project_structure(fs, base_dir)
       IN  /\ fs' = r.fs
           /\ createLog' = Append(createLog, r)
    /\ UNCHANGED <<base_dir, fsStart, filepath, description, verifyResult>>

\* A path exists only inside a directory.
Consistent(f, base) ==
    \A p \in PathsOf(base) :
        Len(p) > 1 /\ f[p] # "absent" => f[Prefix(p, Len(p) - 1)] = "dir"

NoFilepath == <<>>

StartCreate ==
    /\ base_dir \in BaseDirs
    /\ fs \in {f \in [PathsOf(base_dir) -> {"absent", "dir", "file"}] :
                 Consistent(f, base_dir)}
    /\ fsStart = fs
    /\ createLog = <<>>
    /\ filepath = NoFilepath
    /\ description = "File"
    /\ verifyResult = [status |-> "idle", message |-> <<>>]

----------------------------------------------------------------------------
(* verify_file_exists                                                      *)

Descriptions == {"File", "Model file"}

\* os.path.exists(filepath)
PathExists(f, path) == f[path] # "absent"

\* Variant: the message names the default description, not the one given.
NotFoundMessageDefaultDescription(desc, path) ==
    <<"File", " not found: ">> \o path
        \o <<"\nPlease check the file path and try again.">>

\* The f-string of the FileNotFoundError, as its pieces.
NotFoundMessage(desc, path) ==
    <<desc, " not found: ">> \o path
        \o <<"\nPlease check the file path and try again.">>

verify_file_exists(f, path, desc) ==
    IF ~PathExists(f, path)
    THEN [status |-> "FileNotFoundError", message |-> NotFoundMessage(desc, path), fs |-> f]
    ELSE [status |-> "returned", message |-> <<>>, fs |-> f]

VerifyFileExists ==
    /\ verifyResult.status = "pending"
    /\ LET r == verify_file_exists(fs, filepath, description)
       IN  /\ verifyResult' = [status |-> r.status, message |-> r.message]
           /\ fs' = r.fs
    /\ UNCHANGED <<base_dir, fsStart, createLog, filepath, description>>

StartVerify ==
    /\ base_dir \in BaseDirs
    /\ fs \in {f \in [PathsOf(base_dir) -> {"absent", "dir", "file"}] :
                 Consistent(f, base_dir)}
    /\ fsStart = fs
    /\ createLog = <<>>
    /\ filepath \in {LeafPath(base_dir, "ik"), LeafPath(base_dir, "cmc"),
                      Prefix(LeafPath(base_dir, "ik"), 3)}
    /\ description \in Descriptions
    /\ verifyResult = [status |-> "pending", message |-> <<>>]

IdleFs ==
    /\ base_dir = "proj"
    /\ fs = [p \in PathsOf("proj") |-> "absent"]
    /\ fsStart = fs
    /\ createLog = <<>>
    /\ filepath = NoFilepath
    /\ description = "File"
    /\ verifyResult = [status |-> "idle", message |-> <<>>]

----------------------------------------------------------------------------
(* save_results_summary                                                    *)

\* The most calls of save_results_summary in a run.
MaxSaves == 2

OutputDirs == {"results", "out"}

Keys == {"mean_power_W", "note"}

StringValues == <<"ok", "">>

\* Python scalars json.dump accepts: int, float (val is the value in
\* tenths), bool (0 or 1), None, str (val indexes StringValues).
Scalars ==
    [type : {"int"}, val : {-3, 12}] \cup [type : {"float"}, val : {45}]
        \cup [type : {"bool"}, val : {0, 1}] \cup [type : {"NoneType"}, val : {0}]
        \cup [type : {"str"}, val : {1}]

Dicts == UNION {[ks -> Scalars] : ks \in SUBSET Keys}

DigitChars == <<"0", "1", "2", "3", "4", "5", "6", "7", "8", "9">>

RECURSIVE NatChars(_)
\* The decimal digits of n >= 0.
NatChars(n) ==
    IF n < 10 THEN <<DigitChars[n + 1]>>
    ELSE Append(NatChars(n \div 10), DigitChars[(n % 10) + 1])

Abs(n) == IF n < 0 THEN -n ELSE n

SignChars(n) == IF n < 0 THEN <<"-">> ELSE <<>>

\* json's encoding of one scalar: int.__repr__, float.__repr__, true, false,
\* null, or the quoted string.
EncodeScalar(v) ==
    CASE v.type = "int" -> SignChars(v.val) \o NatChars(Abs(v.val))
      [] v.type = "float" ->
           SignChars(v.val) \o NatChars(Abs(v.val) \div 10)
               \o <<".">> \o NatChars(Abs(v.val) % 10)
      [] v.type = "bool" -> IF v.val = 1 THEN <<"true">> ELSE <<"false">>
      [] v.type = "NoneType" -> <<"null">>
      [] v.type = "str" -> <<"\"", StringValues[v.val], "\"">>

RECURSIVE SeqOfSet(_)
\* The elements of a finite set in some order (the dict's iteration order).
SeqOfSet(S) ==
    IF S = {} THEN <<>>
    ELSE LET x == CHOOSE y \in S : TRUE IN <<x>> \o SeqOfSet(S \ {x})

\* json.dump(results_dict, f, indent=2): one member per key.
JsonDump(d) ==
    LET ks == SeqOfSet(DOMAIN d)
    IN  [i \in 1..Len(ks) |-> [key |-> ks[i], text |-> EncodeScalar(d[ks[i]])]]

DigitValue(c) == (CHOOSE i \in 1..10 : DigitChars[i] = c) - 1

RECURSIVE CharsNat(_)
CharsNat(cs) ==
    IF cs = <<>> THEN 0
    ELSE 10 * CharsNat(SubSeq(cs, 1, Len(cs) - 1)) + DigitValue(cs[Len(cs)])

StringIndex(str) == CHOOSE i \in 1..Len(StringValues) : StringValues[i] = str

\* json's decoding of one value: a number with a '.' is a float, any other
\* number an int.
DecodeScalar(cs) ==
    CASE cs = <<"true">> -> [type |-> "bool", val |-> 1]
      [] cs = <<"false">> -> [type |-> "bool", val |-> 0]
      [] cs = <<"null">> -> [type |-> "NoneType", val |-> 0]
      [] cs[1] = "\"" -> [type |-> "str", val |-> StringIndex(cs[2])]
      [] OTHER ->
           LET neg == cs[1] = "-"
               body == IF neg THEN Tail(cs) ELSE cs
               dot == {i \in 1..Len(body) : body[i] = "."}
               sign == IF neg THEN -1 ELSE 1
           IN  IF dot = {}
               THEN [type |-> "int", val |-> sign * CharsNat(body)]
               ELSE LET k == CHOOSE i \in dot : TRUE
                    IN  [type |-> "float",
                         val |-> sign * (10 * CharsNat(SubSeq(body, 1, k - 1))
                                         + CharsNat(SubSeq(body, k + 1, Len(body))))]

\* json.load of the file: the object's members, a later one of the same key
\* replacing an earlier one.
JsonLoad(text) ==
    [k \in {text[i].key : i \in 1..Len(text)} |->
        LET last == CHOOSE i \in 1..Len(text) :
                        text[i].key = k /\ \A j \in (i + 1)..Len(text) : text[j].key # k
        IN  DecodeScalar(text[last].text)]

\* os.path.join(output_dir, 'results_summary.json')
SummaryPath(dir) == <<dir, "results_summary.json">>

\* Variant: the file opened with 'a', the new text after the old.
WriteFileAppending(old, text) == [exists |-> TRUE, text |-> old.text \o text]

\* open(summary_file, 'w') then the write: the file holds the new text alone.
WriteFile(old, text) == [exists |-> TRUE, text |-> text]

save_results_summary(dirKind, file, dir, d) ==
    IF dirKind # "dir"
    THEN [status |-> "raised", path |-> SummaryPath(dir), dict |-> d, file |-> file]
    ELSE [status |-> "returned", path |-> SummaryPath(dir), dict |-> d,
          file |-> WriteFile(file, JsonDump(d))]

SaveResultsSummary ==
    /\ Len(saveLog) < MaxSaves
    /\ \E d \in Dicts :
          LET r == save_results_summary(outputDirKind, summaryFile, output_dir, d)
          IN  /\ summaryFile' = r.file
              /\ saveLog' = Append(saveLog, [status |-> r.status, path |-> r.path, dict |-> r.dict])
    /\ UNCHANGED <<output_dir, outputDirKind>>

StartSave ==
    /\ output_dir \in OutputDirs
    /\ outputDirKind \in {"absent", "dir"}
    /\ summaryFile = [exists |-> FALSE, text |-> <<>>]
    /\ saveLog = <<>>

IdleSave ==
    /\ output_dir = "results"
    /\ outputDirKind = "absent"
    /\ summaryFile = [exists |-> FALSE, text |-> <<>>]
    /\ saveLog = <<>>

----------------------------------------------------------------------------
(* Specifications: one per group of functions, the other groups idle       *)

InitProbes == StartProbes /\ IdleStorage /\ IdleAnalyze /\ IdleFs /\ IdleSave

NextProbes == AddMetabolicProbes /\ UNCHANGED <<varsStorage, varsAnalyze, varsFs, varsSave>>

SpecProbes == InitProbes /\ [][NextProbes]_vars

InitStorage == IdleProbes /\ StartStorage /\ IdleAnalyze /\ IdleFs /\ IdleSave

NextStorage ==
    \/ CalculateMetabolicCost /\ UNCHANGED <<varsProbes, varsAnalyze, varsFs, varsSave>>
    \/ LoadStorageToDict /\ UNCHANGED <<varsProbes, varsAnalyze, varsFs, varsSave>>

SpecStorage == InitStorage /\ [][NextStorage]_vars

InitAnalyze == IdleProbes /\ IdleStorage /\ StartAnalyze /\ IdleFs /\ IdleSave

NextAnalyze ==
    \/ AnalyzeConfigure /\ UNCHANGED <<varsProbes, varsStorage, varsFs, varsSave>>
    \/ AnalyzeRun /\ UNCHANGED <<varsProbes, varsStorage, varsFs, varsSave>>

SpecAnalyze == InitAnalyze /\ [][NextAnalyze]_vars

InitCreate == IdleProbes /\ IdleStorage /\ IdleAnalyze /\ StartCreate /\ IdleSave

NextCreate == CreateProjectStructure /\ UNCHANGED <<varsProbes, varsStorage, varsAnalyze, varsSave>>

SpecCreate == InitCreate /\ [][NextCreate]_vars

InitVerify == IdleProbes /\ IdleStorage /\ IdleAnalyze /\ StartVerify /\ IdleSave

NextVerify == VerifyFileExists /\ UNCHANGED <<varsProbes, varsStorage, varsAnalyze, varsSave>>

SpecVerify == InitVerify /\ [][NextVerify]_vars

InitSave == IdleProbes /\ IdleStorage /\ IdleAnalyze /\ IdleFs /\ StartSave

NextSave == SaveResultsSummary /\ UNCHANGED <<varsProbes, varsStorage, varsAnalyze, varsFs>>

SpecSave == InitSave /\ [][NextSave]_vars

----------------------------------------------------------------------------
(* Properties                                                              *)

RecognizedTypes == {"Umberger2010", "Bhargava2004"}

\* The probes the call attached: those after the input model's own.
GainedProbes == SubSeq(modelProbes, Len(inputProbes) + 1, Len(modelProbes))

\* C1: for every muscle set, the empty one included, add_metabolic_probes
\* with an unrecognized probe_type ends in the unsupported-variant error,
\* attaches no probe and writes no output file.
C1_UnrecognizedTypeFails ==
    (addResult \in {"returned", "ValueError"} /\ probe_type \notin RecognizedTypes)
        => /\ addResult = "ValueError"
           /\ modelProbes = inputProbes
           /\ ~outModel.written

WholeBodyColumns == {i \in 1..Len(stoLabels) : stoLabels[i] = "whole_body_metabolics"}

\* The file has a time column, then value columns of which exactly one is
\* labelled whole_body_metabolics, and that column holds the constant P.
ConstantPowerFile(P) ==
    /\ stoRows # <<>>
    /\ stoLabels[1] = "time"
    /\ Cardinality(WholeBodyColumns) = 1
    /\ \A c \in WholeBodyColumns : \A r \in 1..Len(stoRows) : stoRows[r].data[c - 1] = P

\* C3: on a file whose whole_body_metabolics column holds constant power P
\* over a time column spanning D, calculate_metabolic_cost returns exactly
\* the keys mean_power_W = P, duration_s = D and total_energy_J = P*D.
C3_ConstantPower ==
    \A P \in DataValues :
        (costResult.status \in {"returned", "raised"} /\ ConstantPowerFile(P))
            => LET D == stoRows[Len(stoRows)].time - stoRows[1].time
               IN  /\ costResult.status = "returned"
                   /\ DOMAIN costResult.dict = {"mean_power_W", "total_energy_J", "duration_s"}
                   /\ RatEq(costResult.dict["mean_power_W"], Rat(P, 1))
                   /\ RatEq(costResult.dict["duration_s"], Rat(D, 1))
                   /\ RatEq(costResult.dict["total_energy_J"], Rat(P * D, 1))

\* C4: on a file with no column labelled exactly whole_body_metabolics,
\* whatever its number of rows, calculate_metabolic_cost returns an empty
\* dictionary and does not raise; no statistic is computed.
C4_MissingColumnSoftFail ==
    (costResult.status \in {"returned", "raised"} /\ WholeBodyColumns = {})
        => /\ costResult.status = "returned"
           /\ DOMAIN costResult.dict = {}
           /\ costResult.warned

C4_Witness ==
    /\ costResult.status = "returned"
    /\ WholeBodyColumns = {}
    /\ Len(stoLabels) = MaxCols + 1
    /\ stoRows = <<>>
    /\ DOMAIN costResult.dict = {}

\* C5: in the mapping load_storage_to_dict returns, every non-time label's
\* sequence is as long as the one under 'time', which is the number of rows.
C5_EqualLengths ==
    loadResult.status = "returned"
        => /\ Len(loadResult.data["time"]) = Len(stoRows)
           /\ \A l \in DOMAIN loadResult.data :
                 Len(loadResult.data[l]) = Len(loadResult.data["time"])

\* C6: analyze_metabolics never returns the ProbeReporter_probes.sto path
\* after a run that did not complete: it fails instead.
C6_NoPathAfterFailedRun ==
    anPc = "returned" => (runOutcome = "completed" /\ probesSto)

Min(S) == CHOOSE x \in S : \A y \in S : x <= y

Max(S) == CHOOSE x \in S : \A y \in S : x >= y

\* C7: for a states file with a non-empty monotonic time column, the window
\* the tool holds when the run starts is [min(time), max(time)], and it was
\* set before the run was entered.
C7_WindowIsTimeRange ==
    (statesTime # <<>> /\ NonDecreasing(statesTime))
        => LET window == [set |-> TRUE, initial |-> Min(Range(statesTime)),
                          final |-> Max(Range(statesTime))]
           IN  /\ anPc = "configured" => tool = window
               /\ runOutcome # "none" => runWindow = window

C7_Witness ==
    /\ runOutcome = "completed"
    /\ Len(statesTime) = MaxSamples
    /\ NonDecreasing(statesTime)
    /\ statesTime[1] < statesTime[MaxSamples]
    /\ runWindow.initial = statesTime[1]
    /\ runWindow.final = statesTime[MaxSamples]

\* Every target path is absent or a directory.
NoFiles(f) == \A p \in DOMAIN f : f[p] # "file"

\* C8: from a filesystem whose target paths are absent or directories, every
\* call of create_project_structure on the same base_dir returns, leaves the
\* six leaves as directories, and a later call leaves the same directories
\* and returns the same mapping as the first.
C8_Idempotent ==
    NoFiles(fsStart)
        => \A i \in 1..Len(createLog) :
              /\ createLog[i].status = "returned"
              /\ \A leaf \in LeafNames :
                    /\ createLog[i].fs[LeafPath(base_dir, leaf)] = "dir"
                    /\ createLog[i].dirs.data.results[leaf] = LeafPath(base_dir, leaf)
              /\ createLog[i].fs = createLog[1].fs
              /\ createLog[i].dirs = createLog[1].dirs

C8_Witness ==
    /\ Len(createLog) = 2
    /\ NoFiles(fsStart)
    /\ fsStart[LeafPath(base_dir, "ik")] = "dir"
    /\ fsStart[LeafPath(base_dir, "rra")] = "absent"
    /\ createLog[2].status = "returned"
    /\ fs[LeafPath(base_dir, "rra")] = "dir"

\* sub occurs in msg as consecutive pieces.
Contains(msg, sub) ==
    \E i \in 1..(Len(msg) - Len(sub) + 1) : SubSeq(msg, i, i + Len(sub) - 1) = sub

\* C9: on a path that does not exist verify_file_exists raises the
\* missing-file error with the description and the filepath in its message;
\* on one that exists it returns; the filesystem is unchanged either way.
C9_VerifyFileExists ==
    verifyResult.status \in {"returned", "FileNotFoundError"}
        => /\ fs = fsStart
           /\ fsStart[filepath] = "absent"
                 => /\ verifyResult.status = "FileNotFoundError"
                    /\ Contains(verifyResult.message, <<description>>)
                    /\ Contains(verifyResult.message, filepath)
           /\ fsStart[filepath] # "absent" => verifyResult.status = "returned"

C9_Witness ==
    /\ verifyResult.status = "FileNotFoundError"
    /\ description = "Model file"
    /\ fsStart[filepath] = "absent"
    /\ Len(filepath) = 4

\* C10: a call of save_results_summary on an existing output_dir returns
\* output_dir/results_summary.json, and the file, read back, is the
\* dictionary of the latest call, whatever an earlier call wrote.
C10_RoundTrip ==
    \A i \in 1..Len(saveLog) :
        /\ outputDirKind = "dir" => saveLog[i].status = "returned"
        /\ saveLog[i].status = "returned"
              => /\ saveLog[i].path = <<output_dir, "results_summary.json">>
                 /\ i = Len(saveLog)
                       => /\ summaryFile.exists
                          /\ JsonLoad(summaryFile.text) = saveLog[i].dict

C10_Witness ==
    /\ Len(saveLog) = 2
    /\ saveLog[1].status = "returned"
    /\ saveLog[2].status = "returned"
    /\ DOMAIN saveLog[1].dict = Keys
    /\ DOMAIN saveLog[2].dict = {"mean_power_W"}
    /\ saveLog[2].dict["mean_power_W"] = [type |-> "float", val |-> 45]
    /\ JsonLoad(summaryFile.text) = saveLog[2].dict

====
